---- MODULE Spec2Model ----
(***************************************************************************)
(* Model of the four on-chain programs of solana-mcp:                      *)
(*   state_module    (register_player, update_level)                       *)
(*   behavior_module (attack)                                              *)
(*   asset_module    (mint_item)                                           *)
(*   mint_nft        (initialize)                                          *)
(*                                                                         *)
(* Every instruction is one atomic transaction: the accounts struct is     *)
(* validated (#[derive(Accounts)]), then the handler runs, then the        *)
(* mutable accounts are written back.  An error at any point aborts the    *)
(* transaction and leaves the account store as it was.                     *)
(*                                                                         *)
(* Environment assumptions (outside the source): the transaction passes    *)
(* the accounts in the declared positions with the declared writable       *)
(* flags and the right program ids, and the payer can fund a new account.  *)
(* What varies is what the source decides on: who signed, which key is     *)
(* passed as owner/authority, which address is targeted and the            *)
(* instruction data.                                                       *)
(***************************************************************************)
EXTENDS Integers, Sequences, FiniteSets, TLC

VARIABLES
    accounts,      \* address -> account held at that address (both programs' PlayerState)
    balances,      \* token account -> amount, kept by the token program
    mintAuthority, \* the mint's mint_authority, kept by the token program
    call,          \* history: the last instruction submitted
    result,        \* history: its outcome
    prevAccounts,  \* history: accounts before the last instruction
    prevBalances,  \* history: balances before the last instruction
    minted         \* history: token account -> number of successful mint_item calls to it

vars == <<accounts, balances, mintAuthority, call, result, prevAccounts, prevBalances, minted>>

----------------------------------------------------------------------------
(* Bounds of the model *)

MaxHp == 3        \* initial hp is drawn from 0..MaxHp in Spec
MaxDamage == 2    \* damage is drawn from 0..MaxDamage and 255 in Spec
MaxLevel == 1     \* new_level is drawn from 0..MaxLevel and 255
MaxNameLen == 29  \* names have 4 bytes or 28..MaxNameLen bytes
MaxMints == 2     \* successful mints per token account

(* Program constants *)

U8Max == 255
U8Mod == U8Max + 1

Address == {"a1", "a2"}
CombatAddress == "a1"
Identity == {"A", "B"}
TokenAccount == {"t1", "t2"}

U8 == 0..U8Max
Damages == (0..MaxDamage) \cup {U8Max}
Levels == (0..MaxLevel) \cup {U8Max}
Bumps == {0, U8Max}
Name(n) == [i \in 1..n |-> 72]
Names == {Name(n) : n \in {4} \cup (28..MaxNameLen)}

----------------------------------------------------------------------------
(* Outcomes *)

Ok == "Ok"
PlayerDefeated == "PlayerDefeated"
ConstraintHasOne == "ConstraintHasOne"
AccountNotSigner == "AccountNotSigner"
AccountNotInitialized == "AccountNotInitialized"
AccountOwnedByWrongProgram == "AccountOwnedByWrongProgram"
AccountAlreadyInUse == "AccountAlreadyInUse"
AccountDidNotSerialize == "AccountDidNotSerialize"

(* The names the specification gives to these outcomes *)
LethalDamage == PlayerDefeated
Unauthorized == ConstraintHasOne
InvalidAuthority == AccountNotSigner
AlreadyExists == AccountAlreadyInUse
MintAuthorityMismatch == "MintAuthorityMismatch"
LedgerError == "LedgerError"

----------------------------------------------------------------------------
(* Accounts *)

NoAccount == [kind |-> "none"]
ProfileState(o, n, l) == [kind |-> "profile", owner |-> o, name |-> n, level |-> l]
CombatState(o, h) == [kind |-> "combat", owner |-> o, hp |-> h]

----------------------------------------------------------------------------
(* behavior_module *)

(* Attack accounts struct: player is loaded as Account<PlayerState> of this  *)
(* program, owner must be a Signer, then has_one = owner is checked.         *)
(* variant: has_one = owner left out *)
AttackAccountsNoHasOne(acct, owner, signed) ==
    IF acct.kind = "none" THEN AccountNotInitialized
    ELSE IF acct.kind # "combat" THEN AccountOwnedByWrongProgram
    ELSE IF ~signed THEN AccountNotSigner
    ELSE Ok

AttackAccounts(acct, owner, signed) ==
    IF acct.kind = "none" THEN AccountNotInitialized
    ELSE IF acct.kind # "combat" THEN AccountOwnedByWrongProgram
    ELSE IF ~signed THEN AccountNotSigner
    ELSE IF acct.owner # owner THEN ConstraintHasOne
    ELSE Ok

(* attack handler: require!(player.hp > damage); player.hp -= damage on u8 *)
(* variant: hp >= damage in place of hp > damage *)
attackGe(player, damage) ==
    IF player.hp >= damage
    THEN [res |-> Ok, player |-> [player EXCEPT !.hp = (player.hp - damage) % U8Mod]]
    ELSE [res |-> PlayerDefeated, player |-> player]

(* variant: the require! left out *)
attackNoRequire(player, damage) ==
    [res |-> Ok, player |-> [player EXCEPT !.hp = (player.hp - damage) % U8Mod]]

attack(player, damage) ==
    IF player.hp > damage
    THEN [res |-> Ok, player |-> [player EXCEPT !.hp = (player.hp - damage) % U8Mod]]
    ELSE [res |-> PlayerDefeated, player |-> player]

Attack(addr, owner, signed, damage) ==
    LET v == AttackAccounts(accounts[addr], owner, signed)
        r == attack(accounts[addr], damage)
        ok == v = Ok /\ r.res = Ok
    IN  /\ accounts' = IF ok THEN [accounts EXCEPT ![addr] = r.player] ELSE accounts
        /\ result' = IF v # Ok THEN v ELSE r.res
        /\ call' = [op |-> "Attack", addr |-> addr, caller |-> owner,
                    signed |-> signed, arg |-> damage]
        /\ prevAccounts' = accounts
        /\ prevBalances' = balances
        /\ UNCHANGED <<balances, mintAuthority, minted>>

----------------------------------------------------------------------------
(* state_module *)

(* space = 8 + 32 + 32 + 1 bytes are allocated for a PlayerState account *)
Space == 8 + 32 + 32 + 1

(* Borsh layout behind the 8-byte discriminator: Pubkey (32 bytes), String  *)
(* (4-byte length, then the bytes), u8 (1 byte)                             *)
SerializedLen(player) == 8 + 32 + (4 + Len(player.name)) + 1

(* the longest name whose record fits the allocated space: 28 bytes *)
NameCapacity == Space - (8 + 32 + 4 + 1)

(* writing the account back on exit fails when it does not fit its data *)
try_serialize(player) ==
    IF SerializedLen(player) <= Space THEN Ok ELSE AccountDidNotSerialize

(* RegisterPlayer accounts struct: authority must be a Signer; init creates *)
(* the account at the address, which fails when the address is in use.      *)
(* variant: init_if_needed in place of init *)
RegisterPlayerAccountsIfNeeded(acct, signed) ==
    IF ~signed THEN AccountNotSigner
    ELSE Ok

RegisterPlayerAccounts(acct, signed) ==
    IF ~signed THEN AccountNotSigner
    ELSE IF acct.kind # "none" THEN AccountAlreadyInUse
    ELSE Ok

(* variant: level left at its zero default *)
register_playerLevel0(authority, name) ==
    ProfileState(authority, name, 0)

register_player(authority, name) ==
    ProfileState(authority, name, 1)

RegisterPlayer(addr, authority, signed, name) ==
    LET v == RegisterPlayerAccounts(accounts[addr], signed)
        p == register_player(authority, name)
        res == IF v # Ok THEN v ELSE try_serialize(p)
    IN  /\ accounts' = IF res = Ok THEN [accounts EXCEPT ![addr] = p] ELSE accounts
        /\ result' = res
        /\ call' = [op |-> "RegisterPlayer", addr |-> addr, caller |-> authority,
                    signed |-> signed, arg |-> name]
        /\ prevAccounts' = accounts
        /\ prevBalances' = balances
        /\ UNCHANGED <<balances, mintAuthority, minted>>

(* UpdateLevel accounts struct: as Attack's, on this program's PlayerState *)
(* variant: has_one = owner left out *)
UpdateLevelAccountsNoHasOne(acct, owner, signed) ==
    IF acct.kind = "none" THEN AccountNotInitialized
    ELSE IF acct.kind # "profile" THEN AccountOwnedByWrongProgram
    ELSE IF ~signed THEN AccountNotSigner
    ELSE Ok

UpdateLevelAccounts(acct, owner, signed) ==
    IF acct.kind = "none" THEN AccountNotInitialized
    ELSE IF acct.kind # "profile" THEN AccountOwnedByWrongProgram
    ELSE IF ~signed THEN AccountNotSigner
    ELSE IF acct.owner # owner THEN ConstraintHasOne
    ELSE Ok

update_level(player, new_level) ==
    [player EXCEPT !.level = new_level]

UpdateLevel(addr, owner, signed, new_level) ==
    LET v == UpdateLevelAccounts(accounts[addr], owner, signed)
        p == update_level(accounts[addr], new_level)
        res == IF v # Ok THEN v ELSE try_serialize(p)
    IN  /\ accounts' = IF res = Ok THEN [accounts EXCEPT ![addr] = p] ELSE accounts
        /\ result' = res
        /\ call' = [op |-> "UpdateLevel", addr |-> addr, caller |-> owner,
                    signed |-> signed, arg |-> new_level]
        /\ prevAccounts' = accounts
        /\ prevBalances' = balances
        /\ UNCHANGED <<balances, mintAuthority, minted>>

----------------------------------------------------------------------------
(* asset_module *)

(* The token program's mint_to, by its contract: the authority must be the  *)
(* mint's mint_authority; any other failure of the ledger is `fault`.       *)
mint_to(bal, to, authority, amount, fault) ==
    IF authority # mintAuthority THEN [res |-> MintAuthorityMismatch, bal |-> bal]
    ELSE IF fault THEN [res |-> LedgerError, bal |-> bal]
    ELSE [res |-> Ok, bal |-> [bal EXCEPT ![to] = @ + amount]]

(* MintItem accounts struct: authority must be a Signer *)
MintItemAccounts(signed) ==
    IF ~signed THEN AccountNotSigner ELSE Ok

(* mint_item handler: mint_to(mint_ctx, 1)?; Ok(()).  _bump is not used. *)
(* variant: the quantity is taken from the instruction's argument *)
mint_itemBump(bal, to, authority, bump, fault) ==
    mint_to(bal, to, authority, bump, fault)

(* variant: the ledger's error is dropped *)
mint_itemSwallow(bal, to, authority, bump, fault) ==
    [res |-> Ok, bal |-> mint_to(bal, to, authority, 1, fault).bal]

mint_item(bal, to, authority, bump, fault) ==
    mint_to(bal, to, authority, 1, fault)

MintItem(authority, signed, to, bump, fault) ==
    LET v == MintItemAccounts(signed)
        r == mint_item(balances, to, authority, bump, fault)
        ok == v = Ok /\ r.res = Ok
    IN  /\ minted[to] < MaxMints
        /\ balances' = IF ok THEN r.bal ELSE balances
        /\ minted' = IF ok THEN [minted EXCEPT ![to] = @ + 1] ELSE minted
        /\ result' = IF v # Ok THEN v ELSE r.res
        /\ call' = [op |-> "MintItem", addr |-> to, caller |-> authority,
                    signed |-> signed, arg |-> [bump |-> bump, fault |-> fault]]
        /\ prevAccounts' = accounts
        /\ prevBalances' = balances
        /\ UNCHANGED <<accounts, mintAuthority>>

----------------------------------------------------------------------------
(* mint_nft *)

(* Initialize accounts struct: payer must be a Signer *)
InitializeAccounts(signed) ==
    IF ~signed THEN AccountNotSigner ELSE Ok

(* initialize handler: Ok(()) *)
(* variant: the handler returns an error *)
initializeErr == AccountNotInitialized

initialize == Ok

Initialize(payer, signed) ==
    LET v == InitializeAccounts(signed)
    IN  /\ result' = IF v # Ok THEN v ELSE initialize
        /\ call' = [op |-> "Initialize", addr |-> "none", caller |-> payer,
                    signed |-> signed, arg |-> 0]
        /\ prevAccounts' = accounts
        /\ prevBalances' = balances
        /\ UNCHANGED <<accounts, balances, mintAuthority, minted>>

----------------------------------------------------------------------------
(* The programs under any sequence of instructions *)

NoCall == [op |-> "none", addr |-> "none", caller |-> "none", signed |-> FALSE, arg |-> 0]

InitWith(HpSet) ==
    /\ \E h \in HpSet :
          accounts = [a \in Address |->
                        IF a = CombatAddress THEN CombatState("A", h) ELSE NoAccount]
    /\ balances = [t \in TokenAccount |-> 0]
    /\ mintAuthority = "A"
    /\ call = NoCall
    /\ result = Ok
    /\ prevAccounts = accounts
    /\ prevBalances = balances
    /\ minted = [t \in TokenAccount |-> 0]

Init == InitWith(0..MaxHp)

DoAttack ==
    \E a \in Address, o \in Identity, s \in BOOLEAN, d \in Damages : Attack(a, o, s, d)

DoRegisterPlayer ==
    \E a \in Address, o \in Identity, s \in BOOLEAN, n \in Names : RegisterPlayer(a, o, s, n)

DoUpdateLevel ==
    \E a \in Address, o \in Identity, s \in BOOLEAN, l \in Levels : UpdateLevel(a, o, s, l)

DoMintItem ==
    \E o \in Identity, s \in BOOLEAN, t \in TokenAccount, b \in Bumps, f \in BOOLEAN :
        MintItem(o, s, t, b, f)

DoInitialize ==
    \E o \in Identity, s \in BOOLEAN : Initialize(o, s)

Next ==
    \/ DoAttack
    \/ DoRegisterPlayer
    \/ DoUpdateLevel
    \/ DoMintItem
    \/ DoInitialize

Spec == Init /\ [][Next]_vars

(* One attack on a record with any 8-bit hp, with any 8-bit damage *)
InitAttack == InitWith(U8)

NextAttack ==
    /\ call.op = "none"
    /\ \E o \in Identity, s \in BOOLEAN, d \in U8 : Attack(CombatAddress, o, s, d)

SpecAttack == InitAttack /\ [][NextAttack]_vars

----------------------------------------------------------------------------
(* Properties.  The record the last instruction addressed, before and after *)

Before == prevAccounts[call.addr]
After == accounts[call.addr]

AttackByOwner ==
    /\ call.op = "Attack" /\ call.signed
    /\ Before.kind = "combat" /\ call.caller = Before.owner

AttackByOther ==
    /\ call.op = "Attack" /\ call.signed
    /\ Before.kind = "combat" /\ call.caller # Before.owner

UpdateByOwner ==
    /\ call.op = "UpdateLevel" /\ call.signed
    /\ Before.kind = "profile" /\ call.caller = Before.owner

UpdateByOther ==
    /\ call.op = "UpdateLevel" /\ call.signed
    /\ Before.kind = "profile" /\ call.caller # Before.owner

RegisterAtFree ==
    /\ call.op = "RegisterPlayer" /\ call.signed
    /\ Before.kind = "none"

RegisterAtOccupied ==
    /\ call.op = "RegisterPlayer" /\ call.signed
    /\ Before.kind # "none"

(* C1: for every stored hp and every damage in 0..255, Attack by the        *)
(* record's owner succeeds iff damage < hp; on success the new hp is        *)
(* hp - damage, without wrap-around, and is > 0; on failure the outcome is  *)
(* LethalDamage and the record is unchanged.                                *)
C1_AttackIffDamageBelowHp ==
    AttackByOwner =>
        /\ (result = Ok) <=> (call.arg < Before.hp)
        /\ result = Ok =>
              /\ After = [Before EXCEPT !.hp = Before.hp - call.arg]
              /\ After.hp > 0
              /\ After.hp \in U8
        /\ result # Ok =>
              /\ result = LethalDamage
              /\ accounts = prevAccounts

C1_Witness ==
    /\ AttackByOwner
    /\ Before.hp = U8Max /\ call.arg = U8Max - 1
    /\ result = Ok /\ After.hp = 1

(* C2: a combat record whose hp is > 0 still has hp >= 1 after any Attack   *)
(* (and any other instruction), whoever calls it and whatever the damage;   *)
(* by induction hp > 0 is kept along every sequence of calls.               *)
C2_HpStaysPositive ==
    \A a \in Address :
        (prevAccounts[a].kind = "combat" /\ prevAccounts[a].hp > 0) =>
            (accounts[a].kind = "combat" /\ accounts[a].hp >= 1)

C2_Witness ==
    /\ AttackByOwner /\ result = Ok
    /\ Before.hp = MaxDamage + 1 /\ call.arg = MaxDamage
    /\ After.hp = 1

(* C3: UpdateLevel by a caller who is not the stored owner fails            *)
(* Unauthorized for every new level and leaves the record unchanged.        *)
C3_UpdateLevelByOtherRejected ==
    UpdateByOther =>
        /\ result = Unauthorized
        /\ accounts = prevAccounts

C3_Witness ==
    /\ UpdateByOther
    /\ Before.level = U8Max /\ call.arg = 0
    /\ result = Unauthorized /\ After.level = U8Max

(* C4: RegisterPlayer at an address that already holds a record fails       *)
(* AlreadyExists, for any authority and any name, and leaves the record     *)
(* (owner, name, level, also a level set by UpdateLevel) as it was.         *)
C4_RegisterTwiceRejected ==
    RegisterAtOccupied =>
        /\ result = AlreadyExists
        /\ accounts = prevAccounts

C4_Witness ==
    /\ RegisterAtOccupied
    /\ Before.kind = "profile" /\ Before.level = U8Max
    /\ call.caller # Before.owner /\ call.arg # Before.name
    /\ result = AlreadyExists /\ After = Before

(* C5: a successful MintItem adds exactly 1 to the destination balance,     *)
(* whatever its argument, and touches no other balance; every balance has grown from its initial 0 by  *)
(* the number of successful MintItem calls to it.                           *)
C5_MintAddsOne ==
    /\ (call.op = "MintItem" /\ result = Ok) =>
           balances = [prevBalances EXCEPT ![call.addr] = @ + 1]
    /\ \A t \in TokenAccount : balances[t] = minted[t]

C5_Witness ==
    /\ call.op = "MintItem" /\ result = Ok /\ call.arg.bump = U8Max
    /\ prevBalances[call.addr] = 1 /\ balances[call.addr] = 2
    /\ minted[call.addr] = 2

(* C6: MintItem by an authority that is not the mint's authority fails      *)
(* MintAuthorityMismatch, any other ledger failure fails LedgerError, the   *)
(* call succeeds only when the ledger did, and a failed call changes no     *)
(* balance.                                                                 *)
C6_MintFailureHasNoEffect ==
    call.op = "MintItem" =>
        /\ (call.signed /\ call.caller # mintAuthority) =>
               result = MintAuthorityMismatch
        /\ (call.signed /\ call.caller = mintAuthority /\ call.arg.fault) =>
               result = LedgerError
        /\ (result = Ok) <=> (call.signed /\ call.caller = mintAuthority /\ ~call.arg.fault)
        /\ result # Ok => (balances = prevBalances /\ accounts = prevAccounts)

C6_Witness ==
    /\ call.op = "MintItem" /\ call.signed
    /\ call.caller # mintAuthority
    /\ result = MintAuthorityMismatch
    /\ prevBalances[call.addr] = 1 /\ balances[call.addr] = 1

(* C7: Attack by a caller who is not the stored owner fails Unauthorized    *)
(* for every damage, also when damage >= hp, and leaves hp unchanged.       *)
C7_AttackByOtherRejected ==
    AttackByOther =>
        /\ result = Unauthorized
        /\ accounts = prevAccounts

C7_Witness ==
    /\ AttackByOther
    /\ call.arg >= Before.hp /\ Before.hp > 0
    /\ result = Unauthorized /\ After.hp = Before.hp

(* C8: UpdateLevel by the owner sets level to the new level, whatever it    *)
(* is, and leaves owner and name unchanged.                                 *)
UpdateByOwnerSetsLevel ==
    UpdateByOwner =>
        /\ result = Ok
        /\ accounts = [prevAccounts EXCEPT ![call.addr] = [Before EXCEPT !.level = call.arg]]

(* C8 as stated: RegisterPlayer at an unoccupied address creates the record *)
(* {owner = authority, name, level = 1}, for any name.                      *)
C8_Original ==
    /\ RegisterAtFree =>
           /\ result = Ok
           /\ accounts = [prevAccounts EXCEPT
                              ![call.addr] = ProfileState(call.caller, call.arg, 1)]
    /\ UpdateByOwnerSetsLevel

(* C8 amended: RegisterPlayer at an unoccupied address with a name of at    *)
(* most 28 bytes creates {owner = authority, name, level = 1}; with a       *)
(* longer name it fails and creates nothing.  UpdateLevel by the owner sets *)
(* level to the new level and leaves owner and name unchanged.              *)
C8_RegisterThenUpdate ==
    /\ (RegisterAtFree /\ Len(call.arg) <= NameCapacity) =>
           /\ result = Ok
           /\ accounts = [prevAccounts EXCEPT
                              ![call.addr] = ProfileState(call.caller, call.arg, 1)]
    /\ (RegisterAtFree /\ Len(call.arg) > NameCapacity) =>
           /\ result = AccountDidNotSerialize
           /\ accounts = prevAccounts
    /\ UpdateByOwnerSetsLevel

C8_Witness ==
    /\ UpdateByOwner /\ result = Ok
    /\ Len(Before.name) = NameCapacity
    /\ Before.level = U8Max /\ call.arg = 0
    /\ After = ProfileState(call.caller, Before.name, 0)

(* C9: a record is never deleted and its owner never changes; a step that   *)
(* changes a level is an UpdateLevel at that address signed by the stored   *)
(* owner, a step that changes an hp is an Attack at that address signed by  *)
(* the stored owner; records at other addresses are left unchanged, and     *)
(* MintItem and Initialize change no record.                                *)
C9_OnlyOwnerMutates ==
    /\ \A a \in Address :
          /\ prevAccounts[a].kind # "none" =>
                /\ accounts[a].kind = prevAccounts[a].kind
                /\ accounts[a].owner = prevAccounts[a].owner
          /\ (prevAccounts[a].kind = "profile" /\ accounts[a] # prevAccounts[a]) =>
                /\ call.op = "UpdateLevel" /\ call.addr = a
                /\ call.signed /\ call.caller = prevAccounts[a].owner
          /\ (prevAccounts[a].kind = "combat" /\ accounts[a] # prevAccounts[a]) =>
                /\ call.op = "Attack" /\ call.addr = a
                /\ call.signed /\ call.caller = prevAccounts[a].owner
          /\ a # call.addr => accounts[a] = prevAccounts[a]
    /\ call.op \in {"MintItem", "Initialize"} => accounts = prevAccounts
    /\ call.op # "MintItem" => balances = prevBalances

C9_Witness ==
    /\ AttackByOwner /\ result = Ok
    /\ After.hp < Before.hp /\ After.owner = Before.owner
    /\ \E a \in Address :
          /\ a # call.addr
          /\ accounts[a].kind = "profile" /\ accounts[a].owner # Before.owner
          /\ accounts[a] = prevAccounts[a]

(* C10: Initialize with a signing payer succeeds in every state, and        *)
(* changes no record and no balance.                                        *)
C10_InitializeIsNoOp ==
    call.op = "Initialize" =>
        /\ call.signed => result = Ok
        /\ accounts = prevAccounts
        /\ balances = prevBalances

C10_Witness ==
    /\ call.op = "Initialize" /\ call.signed /\ result = Ok
    /\ \E a \in Address : accounts[a].kind = "profile" /\ accounts[a].level = U8Max
    /\ \E t \in TokenAccount : balances[t] = MaxMints

====
